---- MODULE Spec2Model ----
(***************************************************************************)
(* tcp_chat: the ChatSession actor (src/src/session.rs), the peer that     *)
(* drives it over the socket (src/src/client.rs), and the ChatServer       *)
(* registry the sessions address.  The registry's source (crate::server)   *)
(* is not among the source files; its five handlers are modelled from      *)
(* section 4.3 of the specification.                                       *)
(*                                                                         *)
(* Time is counted in heartbeat intervals.  A session handles every event  *)
(* that is ready for it before the next interval elapses (handlers take    *)
(* no time), except while a wait future (Connect, ListRooms) is            *)
(* outstanding: then its stream, its mailbox and its interval timer are    *)
(* all paused.  The registry answers after an arbitrary delay, which in    *)
(* Spec stays within the interval and in SpecHB may span many intervals.   *)
(* A registry that stops fails the Connect and ListRooms requests still    *)
(* in its mailbox and loses the others.                                    *)
(***************************************************************************)
EXTENDS Naturals, Sequences, FiniteSets, TLC

\* ---- bounds of the model
NSessions == 2      \* connections accepted
MaxFrames == 2      \* frames a peer writes besides its periodic Ping
MaxQueue == 3       \* requests held in the registry's mailbox
MaxPingOut == 1     \* server Ping responses counted per connection and interval

\* ---- program constants
HEARTBEAT_INTERVAL == 1
CLIENT_TIMEOUT == 10
NoId == 0
MainRoom == "Main"

Slots == 1 .. NSessions
JoinNames == {"A", "B"}
Texts == {"hi"}
NoRoom == "-"

VARIABLES
    st,         \* actor state of each session: New, Connecting, Active, Stopping, Stopped
    id,         \* ChatSession.id
    room,       \* ChatSession.room
    idle,       \* intervals elapsed since ChatSession.hb
    tickDue,    \* the run_interval timer of the session has a tick ready
    wait,       \* the wait future that pauses the context: none, connect, list
    reply,      \* the registry's answer to that future, once sent
    streamLast, \* the context polls the interval timer before the stream
    inbox,      \* decoded frames of the peer not yet handled (FramedRead)
    mbox,       \* Message pushes in the session's mailbox
    out,        \* responses written to the peer through framed, Ping excepted
    pingOut,    \* Ping responses written to the peer in the current interval
    hbFailed,   \* the liveness check has failed for the session
    sessions,   \* registry: SessionId -> outbound handle (the session's slot)
    rooms,      \* registry: room name -> member set
    roomOrder,  \* registry: room names in creation order
    nextId,     \* registry: id counter
    up,         \* registry: the actor runs
    srvq,       \* registry mailbox, in arrival order
    budget,     \* frames the peer may still write
    pinger,     \* the peer writes Ping every interval
    harness,    \* the peer is the client harness (ChatClient)
    client,     \* the peer's end of the connection: Open, Stopped
    conns,      \* connections the acceptor gets
    slow,       \* the registry may leave a request unanswered over an interval
    lastJoin    \* room of the Join of each session the registry applied last

vars == <<st, id, room, idle, tickDue, wait, reply, streamLast, inbox, mbox, out, pingOut,
          hbFailed, sessions, rooms, roomOrder, nextId, up, srvq, budget, pinger,
          harness, client, conns, slow, lastJoin>>

sessVars == <<st, id, room, idle, tickDue, wait, reply, streamLast, inbox, mbox, out,
              pingOut, hbFailed>>
regVars == <<sessions, rooms, roomOrder, nextId, up>>
peerVars == <<budget, pinger, harness, client, conns, slow>>

\* ---- values

\* ChatRequest as decoded from the peer; Bad is a decode error or unknown
\* tag, Eof the end of the stream
Frame(tag, arg) == [tag |-> tag, arg |-> arg]
Frames ==
    {Frame("List", ""), Frame("Bad", "")}
        \cup {Frame("Join", n) : n \in JoinNames}
        \cup {Frame("Msg", t) : t \in Texts}
PingFrame == Frame("Ping", "")
EofFrame == Frame("Eof", "")

\* ChatResponse written to the peer
Response(tag, arg, names) == [tag |-> tag, arg |-> arg, names |-> names]

\* a request in the registry's mailbox
Request(type, from, i, name, msg) ==
    [type |-> type, from |-> from, id |-> i, name |-> name, msg |-> msg]

NoReply == [kind |-> "none", id |-> NoId, names |-> <<>>]
IdReply(i) == [kind |-> "id", id |-> i, names |-> <<>>]
RoomsReply(names) == [kind |-> "rooms", id |-> NoId, names |-> names]
\* the request future resolves with Err(MailboxError)
ErrReply == [kind |-> "err", id |-> NoId, names |-> <<>>]

Min(a, b) == IF a < b THEN a ELSE b

\* ---- session helpers

ConnectRequest(s) == Request("Connect", s, NoId, "", "")
ListRoomsRequest(s) == Request("ListRooms", s, NoId, "", "")
\* variant: the Disconnect carries the sentinel id
DisconnectRequestNoId(s, i) == Request("Disconnect", s, NoId, "", "")
DisconnectRequest(s, i) == Request("Disconnect", s, i, "", "")
\* variants: the Join carries the sentinel id / the default room name
JoinRequestNoId(s, i, name) == Request("Join", s, NoId, name, "")
JoinRequestMain(s, i, name) == Request("Join", s, i, MainRoom, "")
JoinRequest(s, i, name) == Request("Join", s, i, name, "")
\* variant: the Message carries the sentinel id
MessageRequestNoId(s, i, msg, r) == Request("Message", s, NoId, r, msg)
MessageRequest(s, i, msg, r) == Request("Message", s, i, r, msg)

\* variant: the Joined echo is written twice
WriteJoinedTwice(o, name) ==
    Append(Append(o, Response("Joined", name, <<>>)), Response("Joined", name, <<>>))
\* variant: no Joined echo
WriteJoinedNothing(o, name) == o
WriteJoined(o, name) == Append(o, Response("Joined", name, <<>>))
\* variant: the first room name is left out of the listing
WriteRoomsTail(o, names) ==
    Append(o, Response("Rooms", "", IF names = <<>> THEN names ELSE Tail(names)))
WriteRooms(o, names) == Append(o, Response("Rooms", "", names))
\* variant: the push is written with the Joined tag
WriteMessageAsJoined(o, text) == Append(o, Response("Joined", text, <<>>))
WriteMessage(o, text) == Append(o, Response("Message", text, <<>>))
WritePing(n) == IF n < MaxPingOut THEN n + 1 ELSE n

\* variant: the check is late by one interval
TimedOutLate(elapsed) == elapsed * HEARTBEAT_INTERVAL > CLIENT_TIMEOUT + 1
TimedOut(elapsed) == elapsed * HEARTBEAT_INTERVAL > CLIENT_TIMEOUT

\* the peer's periodic Ping joins the unread frames; Pings that lie unread
\* one after the other are handled back to back and are kept as one frame
PushPing(q) ==
    IF q # <<>> /\ q[Len(q)] = PingFrame THEN q ELSE Append(q, PingFrame)

\* the context is not paused and the actor runs
Running(s) == st[s] = "Active" /\ wait[s] = "none"

\* The context handles the messages of its mailbox before it polls what it
\* has spawned; that it polls in the order it was spawned, the stream
\* (add_stream) before the interval timer (hb), and it moves the stream
\* behind the timer once a stream item has started a wait.
FrameTurn(s) ==
    /\ Running(s) /\ mbox[s] = <<>>
    /\ inbox[s] # <<>> /\ (streamLast[s] => ~tickDue[s])
TimerTurn(s) ==
    /\ Running(s) /\ mbox[s] = <<>>
    /\ tickDue[s] /\ (~streamLast[s] => inbox[s] = <<>>)

\* an event of session s is ready to be handled now
Busy(s) ==
    \/ st[s] = "Stopping"
    \/ st[s] \in {"Connecting", "Active"} /\ wait[s] # "none" /\ reply[s] # NoReply
    \/ Running(s) /\ (inbox[s] # <<>> \/ mbox[s] # <<>> \/ tickDue[s])

\* a Ping response lies unread at the client harness
Unread(s) == harness[s] /\ client[s] = "Open" /\ pingOut[s] > 0

\* ---- registry helpers (section 4.3)

RemoveHandle(ss, i) == [j \in DOMAIN ss \ {i} |-> ss[j]]
AddHandle(ss, i, s) == [j \in DOMAIN ss \cup {i} |-> IF j = i THEN s ELSE ss[j]]
LeaveAll(rm, i) == [r \in DOMAIN rm |-> rm[r] \ {i}]
JoinRoom(rm, i, name) ==
    [r \in DOMAIN rm \cup {name} |->
        IF r = name
        THEN (IF r \in DOMAIN rm THEN rm[r] ELSE {}) \cup {i}
        ELSE rm[r] \ {i}]
ListOrder(order, name) ==
    IF \E k \in 1 .. Len(order) : order[k] = name THEN order ELSE Append(order, name)
Members(rm, name) == IF name \in DOMAIN rm THEN rm[name] ELSE {}
\* the slots a broadcast to the room reaches
Targets(ss, rm, name) == {ss[i] : i \in Members(rm, name) \cap DOMAIN ss}
\* a push to a stopped actor is dropped
Deliver(mb, state, text) == IF state = "Stopped" THEN mb ELSE Append(mb, text)

RoomsOf(i) == {r \in DOMAIN rooms : i \in rooms[r]}

\* ---- initial state

\* the kinds of peer behind the first c connections: silent, pinging (it
\* writes Ping every interval and ignores the server's Ping), harness
Kinds(c, K) ==
    {k \in [Slots -> K \cup {"silent"}] :
        \A s \in Slots : IF s <= c THEN k[s] \in K ELSE k[s] = "silent"}

InitWith(c, sl, kinds) ==
    /\ conns = c
    /\ slow = sl
    /\ up = TRUE
    /\ client = [s \in Slots |-> "Open"]
    /\ st = [s \in Slots |-> "New"]
    /\ id = [s \in Slots |-> NoId]
    /\ room = [s \in Slots |-> MainRoom]
    /\ idle = [s \in Slots |-> 0]
    /\ tickDue = [s \in Slots |-> FALSE]
    /\ wait = [s \in Slots |-> "none"]
    /\ reply = [s \in Slots |-> NoReply]
    /\ streamLast = [s \in Slots |-> FALSE]
    /\ inbox = [s \in Slots |-> <<>>]
    /\ mbox = [s \in Slots |-> <<>>]
    /\ out = [s \in Slots |-> <<>>]
    /\ pingOut = [s \in Slots |-> 0]
    /\ hbFailed = [s \in Slots |-> FALSE]
    /\ sessions = <<>>
    /\ rooms = <<>>
    /\ roomOrder = <<>>
    /\ nextId = 1
    /\ srvq = <<>>
    /\ budget = [s \in Slots |-> MaxFrames]
    /\ \E k \in kinds :
        /\ pinger = [s \in Slots |-> k[s] # "silent"]
        /\ harness = [s \in Slots |-> k[s] = "harness"]
    /\ lastJoin = [s \in Slots |-> NoRoom]

\* ---- the acceptor and the session actor

\* tcp_server accepts a connection; ChatSession::new, then started():
\* the interval timer is registered and Connect is sent and waited for
Accept(s) ==
    /\ st[s] = "New"
    /\ s <= conns
    /\ \A t \in Slots : t < s => st[t] # "New"
    /\ Len(srvq) < MaxQueue
    /\ st' = [st EXCEPT ![s] = "Connecting"]
    /\ id' = [id EXCEPT ![s] = NoId]
    /\ room' = [room EXCEPT ![s] = MainRoom]
    /\ idle' = [idle EXCEPT ![s] = 0]
    /\ wait' = [wait EXCEPT ![s] = "connect"]
    /\ srvq' = Append(srvq, ConnectRequest(s))
    /\ UNCHANGED <<streamLast, tickDue, reply, inbox, mbox, out, pingOut, hbFailed>>
    /\ UNCHANGED <<regVars, peerVars, lastJoin>>

\* variant: a failed Connect leaves the session running
ConnectReplyGoesOn(s) ==
    /\ st[s] = "Connecting"
    /\ wait[s] = "connect"
    /\ reply[s] # NoReply
    /\ id' = [id EXCEPT ![s] = reply[s].id]
    /\ st' = [st EXCEPT ![s] = "Active"]
    /\ wait' = [wait EXCEPT ![s] = "none"]
    /\ reply' = [reply EXCEPT ![s] = NoReply]
    /\ UNCHANGED <<streamLast, room, idle, tickDue, inbox, mbox, out, pingOut, hbFailed>>
    /\ UNCHANGED <<regVars, srvq, peerVars, lastJoin>>

\* the Connect future resolves: Ok(res) => act.id = res, _ => ctx.stop()
ConnectReply(s) ==
    /\ st[s] = "Connecting"
    /\ wait[s] = "connect"
    /\ reply[s] # NoReply
    /\ IF reply[s].kind = "id"
       THEN /\ id' = [id EXCEPT ![s] = reply[s].id]
            /\ st' = [st EXCEPT ![s] = "Active"]
       ELSE /\ id' = id
            /\ st' = [st EXCEPT ![s] = "Stopping"]
    /\ wait' = [wait EXCEPT ![s] = "none"]
    /\ reply' = [reply EXCEPT ![s] = NoReply]
    /\ UNCHANGED <<streamLast, room, idle, tickDue, inbox, mbox, out, pingOut, hbFailed>>
    /\ UNCHANGED <<regVars, srvq, peerVars, lastJoin>>

\* variant: ListRooms is sent and the context does not wait
HandleListNoWait(s) ==
    /\ FrameTurn(s)
    /\ Head(inbox[s]).tag = "List"
    /\ Len(srvq) < MaxQueue
    /\ inbox' = [inbox EXCEPT ![s] = Tail(@)]
    /\ srvq' = Append(srvq, ListRoomsRequest(s))
    /\ UNCHANGED <<st, id, room, idle, tickDue, wait, streamLast, reply, mbox, out, pingOut, hbFailed>>
    /\ UNCHANGED <<regVars, peerVars, lastJoin>>

\* ChatRequest::List: ListRooms is sent and the context waits for the answer
HandleList(s) ==
    /\ FrameTurn(s)
    /\ Head(inbox[s]).tag = "List"
    /\ Len(srvq) < MaxQueue
    /\ inbox' = [inbox EXCEPT ![s] = Tail(@)]
    /\ srvq' = Append(srvq, ListRoomsRequest(s))
    /\ wait' = [wait EXCEPT ![s] = "list"]
    /\ streamLast' = [streamLast EXCEPT ![s] = TRUE]
    /\ UNCHANGED <<st, id, room, idle, tickDue, reply, mbox, out, pingOut, hbFailed>>
    /\ UNCHANGED <<regVars, peerVars, lastJoin>>

\* variant: the end of the wait empties the mailbox
ListReplyDropsPush(s) ==
    /\ st[s] = "Active"
    /\ wait[s] = "list"
    /\ reply[s] # NoReply
    /\ out' = [out EXCEPT ![s] =
                IF reply[s].kind = "rooms" THEN WriteRooms(@, reply[s].names) ELSE @]
    /\ mbox' = [mbox EXCEPT ![s] = <<>>]
    /\ wait' = [wait EXCEPT ![s] = "none"]
    /\ reply' = [reply EXCEPT ![s] = NoReply]
    /\ UNCHANGED <<streamLast, st, id, room, idle, tickDue, inbox, pingOut, hbFailed>>
    /\ UNCHANGED <<regVars, srvq, peerVars, lastJoin>>

\* the ListRooms future resolves: Ok(rooms) => Rooms is written, _ => a
\* line is printed
ListReply(s) ==
    /\ st[s] = "Active"
    /\ wait[s] = "list"
    /\ reply[s] # NoReply
    /\ out' = [out EXCEPT ![s] =
                IF reply[s].kind = "rooms" THEN WriteRooms(@, reply[s].names) ELSE @]
    /\ wait' = [wait EXCEPT ![s] = "none"]
    /\ reply' = [reply EXCEPT ![s] = NoReply]
    /\ UNCHANGED <<streamLast, st, id, room, idle, tickDue, inbox, mbox, pingOut, hbFailed>>
    /\ UNCHANGED <<regVars, srvq, peerVars, lastJoin>>

\* variant: the Join arm leaves self.room as it is
HandleJoinKeepRoom(s) ==
    /\ FrameTurn(s)
    /\ Head(inbox[s]).tag = "Join"
    /\ Len(srvq) < MaxQueue
    /\ srvq' = Append(srvq, JoinRequest(s, id[s], Head(inbox[s]).arg))
    /\ out' = [out EXCEPT ![s] = WriteJoined(@, Head(inbox[s]).arg)]
    /\ inbox' = [inbox EXCEPT ![s] = Tail(@)]
    /\ UNCHANGED <<streamLast, st, id, room, idle, tickDue, wait, reply, mbox, pingOut, hbFailed>>
    /\ UNCHANGED <<regVars, peerVars, lastJoin>>

\* ChatRequest::Join(name)
HandleJoin(s) ==
    /\ FrameTurn(s)
    /\ Head(inbox[s]).tag = "Join"
    /\ Len(srvq) < MaxQueue
    /\ LET name == Head(inbox[s]).arg IN
        /\ room' = [room EXCEPT ![s] = name]
        /\ srvq' = Append(srvq, JoinRequest(s, id[s], name))
        /\ out' = [out EXCEPT ![s] = WriteJoined(@, name)]
    /\ inbox' = [inbox EXCEPT ![s] = Tail(@)]
    /\ UNCHANGED <<streamLast, st, id, idle, tickDue, wait, reply, mbox, pingOut, hbFailed>>
    /\ UNCHANGED <<regVars, peerVars, lastJoin>>

\* ChatRequest::Message(message)
HandleMsg(s) ==
    /\ FrameTurn(s)
    /\ Head(inbox[s]).tag = "Msg"
    /\ Len(srvq) < MaxQueue
    /\ srvq' = Append(srvq, MessageRequest(s, id[s], Head(inbox[s]).arg, room[s]))
    /\ inbox' = [inbox EXCEPT ![s] = Tail(@)]
    /\ UNCHANGED <<streamLast, st, id, room, idle, tickDue, wait, reply, mbox, out, pingOut, hbFailed>>
    /\ UNCHANGED <<regVars, peerVars, lastJoin>>

\* ChatRequest::Ping: hb = Instant::now()
HandlePing(s) ==
    /\ FrameTurn(s)
    /\ Head(inbox[s]).tag = "Ping"
    /\ idle' = [idle EXCEPT ![s] = 0]
    /\ inbox' = [inbox EXCEPT ![s] = Tail(@)]
    /\ UNCHANGED <<streamLast, st, id, room, tickDue, wait, reply, mbox, out, pingOut, hbFailed>>
    /\ UNCHANGED <<regVars, srvq, peerVars, lastJoin>>

\* variant: the registry is told of a departure and the session goes on
HandleOtherGoesOn(s) ==
    /\ FrameTurn(s)
    /\ Head(inbox[s]).tag \in {"Bad", "Eof"}
    /\ Len(srvq) < MaxQueue
    /\ srvq' = Append(srvq, DisconnectRequest(s, id[s]))
    /\ inbox' = [inbox EXCEPT ![s] = Tail(@)]
    /\ UNCHANGED <<streamLast, st, id, room, idle, tickDue, wait, reply, mbox, out, pingOut, hbFailed>>
    /\ UNCHANGED <<regVars, peerVars, lastJoin>>

\* variant: the frame is skipped and the session goes on
HandleOtherSkip(s) ==
    /\ FrameTurn(s)
    /\ Head(inbox[s]).tag = "Bad"
    /\ inbox' = [inbox EXCEPT ![s] = Tail(@)]
    /\ UNCHANGED <<streamLast, st, id, room, idle, tickDue, wait, reply, mbox, out, pingOut, hbFailed>>
    /\ UNCHANGED <<regVars, srvq, peerVars, lastJoin>>

\* any other item of the stream (a decode or transport error), and the end
\* of the stream: ctx.stop()
HandleOther(s) ==
    /\ FrameTurn(s)
    /\ Head(inbox[s]).tag \in {"Bad", "Eof"}
    /\ st' = [st EXCEPT ![s] = "Stopping"]
    /\ inbox' = [inbox EXCEPT ![s] = Tail(@)]
    /\ UNCHANGED <<streamLast, id, room, idle, tickDue, wait, reply, mbox, out, pingOut, hbFailed>>
    /\ UNCHANGED <<regVars, srvq, peerVars, lastJoin>>

\* Handler<Message>: the registry's push is written to the peer
HandleMessage(s) ==
    /\ Running(s)
    /\ mbox[s] # <<>>
    /\ out' = [out EXCEPT ![s] = WriteMessage(@, Head(mbox[s]))]
    /\ mbox' = [mbox EXCEPT ![s] = Tail(@)]
    /\ UNCHANGED <<streamLast, st, id, room, idle, tickDue, wait, reply, inbox, pingOut, hbFailed>>
    /\ UNCHANGED <<regVars, srvq, peerVars, lastJoin>>

\* one tick of the run_interval closure of hb()
Tick(s) ==
    /\ TimerTurn(s)
    /\ tickDue' = [tickDue EXCEPT ![s] = FALSE]
    /\ IF TimedOut(idle[s])
       THEN /\ Len(srvq) < MaxQueue
            /\ hbFailed' = [hbFailed EXCEPT ![s] = TRUE]
            /\ srvq' = Append(srvq, DisconnectRequest(s, id[s]))
            /\ st' = [st EXCEPT ![s] = "Stopping"]
       ELSE UNCHANGED <<hbFailed, srvq, st>>
    /\ pingOut' = [pingOut EXCEPT ![s] = WritePing(@)]
    /\ UNCHANGED <<streamLast, id, room, idle, wait, reply, inbox, mbox, out>>
    /\ UNCHANGED <<regVars, peerVars, lastJoin>>

\* variant: the actor stops without a word to the registry
StoppingSilently(s) ==
    /\ st[s] = "Stopping"
    /\ st' = [st EXCEPT ![s] = "Stopped"]
    /\ inbox' = [inbox EXCEPT ![s] = <<>>]
    /\ mbox' = [mbox EXCEPT ![s] = <<>>]
    /\ tickDue' = [tickDue EXCEPT ![s] = FALSE]
    /\ idle' = [idle EXCEPT ![s] = 0]
    /\ UNCHANGED <<streamLast, id, room, wait, reply, out, pingOut, hbFailed>>
    /\ UNCHANGED <<regVars, srvq, peerVars, lastJoin>>

\* Actor::stopping: Disconnect is sent, Running::Stop; the actor is dropped
Stopping(s) ==
    /\ st[s] = "Stopping"
    /\ Len(srvq) < MaxQueue
    /\ srvq' = Append(srvq, DisconnectRequest(s, id[s]))
    /\ st' = [st EXCEPT ![s] = "Stopped"]
    /\ inbox' = [inbox EXCEPT ![s] = <<>>]
    /\ mbox' = [mbox EXCEPT ![s] = <<>>]
    /\ tickDue' = [tickDue EXCEPT ![s] = FALSE]
    /\ idle' = [idle EXCEPT ![s] = 0]
    /\ UNCHANGED <<streamLast, id, room, wait, reply, out, pingOut, hbFailed>>
    /\ UNCHANGED <<regVars, peerVars, lastJoin>>

\* ---- the peer

\* the peer writes one frame to its connection, once the session has read
\* the frames before it or is paused
PeerSend(s) ==
    /\ st[s] \in {"Connecting", "Active"}
    /\ client[s] = "Open"
    /\ Running(s) => inbox[s] = <<>>
    /\ budget[s] > 0
    /\ \E f \in Frames : inbox' = [inbox EXCEPT ![s] = Append(@, f)]
    /\ budget' = [budget EXCEPT ![s] = @ - 1]
    /\ UNCHANGED <<streamLast, st, id, room, idle, tickDue, wait, reply, mbox, out, pingOut, hbFailed>>
    /\ UNCHANGED <<regVars, srvq, pinger, harness, client, conns, slow, lastJoin>>

\* ChatClient reads a response that is neither Message, Joined nor Rooms,
\* the server's Ping: ctx.stop(); stopped() stops the System and the
\* connection closes
ClientStop(s) ==
    /\ Unread(s)
    /\ client' = [client EXCEPT ![s] = "Stopped"]
    /\ inbox' = [inbox EXCEPT ![s] =
                  IF st[s] \in {"Connecting", "Active"} THEN Append(@, EofFrame) ELSE @]
    /\ UNCHANGED <<streamLast, st, id, room, idle, tickDue, wait, reply, mbox, out, pingOut, hbFailed>>
    /\ UNCHANGED <<regVars, srvq, budget, pinger, harness, conns, slow, lastJoin>>

\* one heartbeat interval elapses: every interval timer fires and every
\* pinging peer writes its Ping (ChatClient::hb)
Advance ==
    /\ \E s \in Slots : st[s] \in {"Connecting", "Active"}
    /\ \A s \in Slots : ~Busy(s) /\ ~Unread(s)
    /\ slow \/ srvq = <<>>
    /\ idle' = [s \in Slots |->
                  IF st[s] \in {"Connecting", "Active"}
                  THEN Min(idle[s] + 1, CLIENT_TIMEOUT + 1) ELSE idle[s]]
    /\ tickDue' = [s \in Slots |-> st[s] \in {"Connecting", "Active"}]
    /\ inbox' = [s \in Slots |->
                  IF st[s] \in {"Connecting", "Active"} /\ pinger[s] /\ client[s] = "Open"
                  THEN PushPing(inbox[s]) ELSE inbox[s]]
    /\ pingOut' = [s \in Slots |-> 0]
    /\ UNCHANGED <<streamLast, st, id, room, wait, reply, mbox, out, hbFailed>>
    /\ UNCHANGED <<regVars, srvq, peerVars, lastJoin>>

\* ---- the registry (section 4.3), one request of its mailbox at a time

SrvConnect ==
    /\ up
    /\ srvq # <<>>
    /\ Head(srvq).type = "Connect"
    /\ LET s == Head(srvq).from IN
        /\ sessions' = AddHandle(sessions, nextId, s)
        /\ reply' = [reply EXCEPT ![s] = IdReply(nextId)]
    /\ nextId' = nextId + 1
    /\ srvq' = Tail(srvq)
    /\ UNCHANGED <<streamLast, st, id, room, idle, tickDue, wait, inbox, mbox, out, pingOut, hbFailed>>
    /\ UNCHANGED <<rooms, roomOrder, up, peerVars, lastJoin>>

SrvDisconnect ==
    /\ up
    /\ srvq # <<>>
    /\ Head(srvq).type = "Disconnect"
    /\ sessions' = RemoveHandle(sessions, Head(srvq).id)
    /\ rooms' = LeaveAll(rooms, Head(srvq).id)
    /\ lastJoin' = [lastJoin EXCEPT ![Head(srvq).from] = NoRoom]
    /\ srvq' = Tail(srvq)
    /\ UNCHANGED <<sessVars, roomOrder, nextId, up, peerVars>>

SrvJoin ==
    /\ up
    /\ srvq # <<>>
    /\ Head(srvq).type = "Join"
    /\ rooms' = JoinRoom(rooms, Head(srvq).id, Head(srvq).name)
    /\ roomOrder' = ListOrder(roomOrder, Head(srvq).name)
    /\ lastJoin' = [lastJoin EXCEPT ![Head(srvq).from] = Head(srvq).name]
    /\ srvq' = Tail(srvq)
    /\ UNCHANGED <<sessVars, sessions, nextId, up, peerVars>>

SrvMessage ==
    /\ up
    /\ srvq # <<>>
    /\ Head(srvq).type = "Message"
    /\ LET to == Targets(sessions, rooms, Head(srvq).name) IN
        mbox' = [s \in Slots |->
                    IF s \in to THEN Deliver(mbox[s], st[s], Head(srvq).msg)
                    ELSE mbox[s]]
    /\ srvq' = Tail(srvq)
    /\ UNCHANGED <<streamLast, st, id, room, idle, tickDue, wait, reply, inbox, out, pingOut, hbFailed>>
    /\ UNCHANGED <<regVars, peerVars, lastJoin>>

SrvListRooms ==
    /\ up
    /\ srvq # <<>>
    /\ Head(srvq).type = "ListRooms"
    /\ reply' = [reply EXCEPT ![Head(srvq).from] = RoomsReply(roomOrder)]
    /\ srvq' = Tail(srvq)
    /\ UNCHANGED <<streamLast, st, id, room, idle, tickDue, wait, inbox, mbox, out, pingOut, hbFailed>>
    /\ UNCHANGED <<regVars, peerVars, lastJoin>>

\* the registry stops (the process shuts down)
SrvStop ==
    /\ up
    /\ up' = FALSE
    /\ UNCHANGED <<sessVars, sessions, rooms, roomOrder, nextId, srvq, peerVars, lastJoin>>

\* a request to the stopped registry: Connect and ListRooms fail the caller,
\* the others are lost
SrvRefuse ==
    /\ ~up
    /\ srvq # <<>>
    /\ reply' = IF Head(srvq).type \in {"Connect", "ListRooms"}
                THEN [reply EXCEPT ![Head(srvq).from] = ErrReply]
                ELSE reply
    /\ srvq' = Tail(srvq)
    /\ UNCHANGED <<streamLast, st, id, room, idle, tickDue, wait, inbox, mbox, out, pingOut, hbFailed>>
    /\ UNCHANGED <<regVars, peerVars, lastJoin>>

\* ---- specification

Next ==
    \/ \E s \in Slots : Accept(s)
    \/ \E s \in Slots : ConnectReply(s)
    \/ \E s \in Slots : HandleList(s)
    \/ \E s \in Slots : ListReply(s)
    \/ \E s \in Slots : HandleJoin(s)
    \/ \E s \in Slots : HandleMsg(s)
    \/ \E s \in Slots : HandlePing(s)
    \/ \E s \in Slots : HandleOther(s)
    \/ \E s \in Slots : HandleMessage(s)
    \/ \E s \in Slots : Tick(s)
    \/ \E s \in Slots : Stopping(s)
    \/ \E s \in Slots : PeerSend(s)
    \/ \E s \in Slots : ClientStop(s)
    \/ Advance
    \/ SrvConnect
    \/ SrvDisconnect
    \/ SrvJoin
    \/ SrvMessage
    \/ SrvListRooms
    \/ SrvStop
    \/ SrvRefuse

\* a registry that answers within the interval, with connections of
\* pinging peers or with one connection of the client harness
Init ==
    \/ InitWith(NSessions, FALSE, Kinds(NSessions, {"pinging"}))
    \/ InitWith(1, FALSE, Kinds(1, {"harness"}))
Spec == Init /\ [][Next]_vars

\* one connection of any kind of peer and a registry that may take any
\* number of intervals to answer
InitHB == InitWith(1, TRUE, Kinds(1, {"silent", "pinging", "harness"}))
SpecHB == InitHB /\ [][Next]_vars

\* sessions, registry and time all make progress and the client harness
\* reads what it is sent; the peer owes no frame
Fairness ==
    /\ WF_vars(Advance)
    /\ \A s \in Slots : WF_vars(ClientStop(s))
    /\ WF_vars(SrvConnect \/ SrvDisconnect \/ SrvJoin \/ SrvMessage \/ SrvListRooms
               \/ SrvRefuse)
    /\ \A s \in Slots :
        WF_vars(ConnectReply(s) \/ HandleList(s) \/ ListReply(s) \/ HandleJoin(s)
                \/ HandleMsg(s) \/ HandlePing(s) \/ HandleOther(s)
                \/ HandleMessage(s) \/ Tick(s) \/ Stopping(s))
SpecHBLive == InitHB /\ [][Next]_vars /\ Fairness

\* ---- vocabulary of the properties

Listed(names, r) == \E k \in 1 .. Len(names) : names[k] = r
\* the registry holds the handle of session s under the id the session has
Registered(s) == id[s] \in DOMAIN sessions /\ sessions[id[s]] = s
\* a request of the given type sent by s is still in the registry's mailbox
InFlight(s, type) ==
    \E k \in 1 .. Len(srvq) : srvq[k].from = s /\ srvq[k].type = type
\* the registry takes the request at the head of its mailbox
Takes(type) == up /\ srvq # <<>> /\ Head(srvq).type = type /\ srvq' = Tail(srvq)
\* session s is a member of the room in the registry
MemberOf(s, name) == Registered(s) /\ id[s] \in Members(rooms, name)
HasTag(o, tag) == \E k \in 1 .. Len(o) : o[k].tag = tag
IsPrefix(a, b) == Len(a) <= Len(b) /\ SubSeq(b, 1, Len(a)) = a
\* the requests of s in a registry mailbox q, in order
RequestsOf(q, s) == SelectSeq(q, LAMBDA r : r.from = s)
\* the requests of the given types that s has in the registry's mailbox
Sent(s, types) ==
    {k \in 1 .. Len(srvq) : srvq[k].from = s /\ srvq[k].type \in types}

\* ---- C1
\* C1: an id is in at most one room's member set in every state, and from
\* the moment the registry has applied a Join of a session until it applies
\* the session's Disconnect, the session's id is in exactly one room, the
\* room of the Join applied last.
C1_ExactlyOneRoom ==
    /\ \A i \in 0 .. nextId : Cardinality(RoomsOf(i)) <= 1
    /\ \A s \in Slots : lastJoin[s] # NoRoom => RoomsOf(id[s]) = {lastJoin[s]}

\* a session whose two Joins (A, then B) were both applied
C1_Witness ==
    \E s \in Slots :
        /\ Len(out[s]) = 2
        /\ out[s][1] = Response("Joined", "A", <<>>)
        /\ out[s][2] = Response("Joined", "B", <<>>)
        /\ lastJoin[s] = "B"
        /\ RoomsOf(id[s]) = {"B"}
        /\ "A" \in DOMAIN rooms

\* ---- C2
\* C2: when the registry takes Message(id, room, text), every session that
\* is a member of the room and whose actor runs gets exactly one push of
\* the text, every other session gets none; and a session writes exactly
\* one RoomMessage for each push it handles.
C2_BroadcastStep ==
    /\ Takes("Message") =>
        \A s \in Slots :
            mbox'[s] = IF MemberOf(s, Head(srvq).name) /\ st[s] # "Stopped"
                       THEN Append(mbox[s], Head(srvq).msg)
                       ELSE mbox[s]
    /\ \A s \in Slots :
        (Running(s) /\ st'[s] = "Active" /\ mbox[s] # <<>> /\ mbox'[s] = Tail(mbox[s]))
            => out'[s] = Append(out[s], Response("Message", Head(mbox[s]), <<>>))
C2_Broadcast == [][C2_BroadcastStep]_vars

\* a broadcast has reached a member and not the running session outside
\* the room
C2_Witness ==
    \E s, t \in Slots :
        /\ s # t
        /\ HasTag(out[s], "Message")
        /\ st[t] = "Active" /\ Registered(t)
        /\ RoomsOf(id[t]) # RoomsOf(id[s])
        /\ mbox[t] = <<>> /\ ~HasTag(out[t], "Message")
        /\ srvq = <<>>

\* ---- C3
\* C3: a session of a silent peer whose last Ping is older than the
\* liveness timeout is eventually stopped and removed from the registry
\* (as long as there is a registry).
C3_Stale(s) ==
    st[s] = "Active" /\ ~pinger[s] /\ idle[s] * HEARTBEAT_INTERVAL > CLIENT_TIMEOUT
C3_Reaped(s) == st[s] = "Stopped" /\ ~(up /\ Registered(s))
C3_SilentIsReaped == \A s \in Slots : C3_Stale(s) ~> C3_Reaped(s)

\* the liveness check has stopped the session of a silent peer
C3_Witness ==
    \E s \in Slots :
        /\ ~pinger[s] /\ hbFailed[s] /\ st[s] = "Stopped"
        /\ id[s] # NoId /\ ~Registered(s)

\* ---- C4
\* C4: the liveness check never fails for a session whose peer writes a
\* Ping every heartbeat interval.
C4_PingerNeverReaped == \A s \in Slots : pinger[s] => ~hbFailed[s]

\* ---- C5
\* C5: a Disconnect for an id the registry no longer holds leaves the
\* handle map, the rooms and the id counter as they are; the Disconnect
\* the stopping hook sends after the liveness check has sent one is such a
\* request: it carries the session's id, which is gone by then.
C5_SecondDisconnect(s) ==
    /\ Head(srvq).from = s
    /\ hbFailed[s] /\ st[s] = "Stopped"
    /\ ~InFlight(s, "Disconnect")'
C5_IdempotentStep ==
    Takes("Disconnect") =>
        /\ Head(srvq).id \notin DOMAIN sessions =>
            UNCHANGED <<sessions, rooms, roomOrder, nextId>>
        /\ \A s \in Slots : C5_SecondDisconnect(s) =>
            /\ Head(srvq).id = id[s]
            /\ id[s] \notin DOMAIN sessions
            /\ UNCHANGED <<sessions, rooms, roomOrder, nextId>>
C5_Idempotent == [][C5_IdempotentStep]_vars

\* both Disconnects of a session that joined a room and then failed the
\* liveness check have been applied
C5_Witness ==
    \E s \in Slots :
        /\ hbFailed[s] /\ st[s] = "Stopped"
        /\ ~InFlight(s, "Disconnect")
        /\ id[s] # NoId /\ ~Registered(s)
        /\ HasTag(out[s], "Joined")
        /\ srvq = <<>>

\* ---- C6
\* C6: a room, once created, stays in the registry and in its listing, also
\* when its member set is empty; every ListRooms answer lists every room
\* created so far, and the session writes that answer to the peer as it is.
C6_RoomsKeptStep ==
    /\ \A r \in DOMAIN rooms : r \in DOMAIN rooms' /\ Listed(roomOrder', r)
    /\ Takes("ListRooms") =>
        \A r \in DOMAIN rooms : Listed(reply'[Head(srvq).from].names, r)
    /\ \A s \in Slots :
        (wait[s] = "list" /\ wait'[s] = "none" /\ reply[s].kind = "rooms")
            => out'[s] = Append(out[s], Response("Rooms", "", reply[s].names))
C6_RoomsKept == [][C6_RoomsKeptStep]_vars

\* two sessions have joined A and B, the member of A is gone from the
\* registry, and the other session has been given a listing with both
C6_Witness ==
    \E s, t \in Slots :
        /\ s # t
        /\ out[s] = <<Response("Joined", "A", <<>>)>>
        /\ st[s] = "Stopped" /\ ~Registered(s) /\ ~InFlight(s, "Disconnect")
        /\ rooms["A"] = {}
        /\ Len(out[t]) = 2
        /\ out[t][1] = Response("Joined", "B", <<>>)
        /\ out[t][2].tag = "Rooms"
        /\ Listed(out[t][2].names, "A") /\ Listed(out[t][2].names, "B")

\* ---- C7
\* C7: a session writes Joined before any RoomMessage; a Message that a
\* session sent after a Join (it names a joined room) is taken by the
\* registry after that Join was applied, when the sender is a member of
\* the room, and is pushed to the sender.
C7_JoinedFirst ==
    \A s \in Slots : \A k \in 1 .. Len(out[s]) :
        out[s][k].tag = "Message" => \E j \in 1 .. k - 1 : out[s][j].tag = "Joined"
C7_MessageStep ==
    \A s \in Slots :
        (Takes("Message") /\ Head(srvq).from = s /\ Head(srvq).name # MainRoom) =>
            /\ lastJoin[s] = Head(srvq).name
            /\ Head(srvq).id = id[s]
            /\ MemberOf(s, Head(srvq).name)
            /\ st[s] # "Stopped" => mbox'[s] = Append(mbox[s], Head(srvq).msg)
C7_JoinThenMessage == []C7_JoinedFirst /\ [][C7_MessageStep]_vars

\* the peer has been sent Joined(A) and then the RoomMessage of its own text
C7_Witness ==
    \E s \in Slots :
        /\ out[s] = <<Response("Joined", "A", <<>>), Response("Message", "hi", <<>>)>>
        /\ \A t \in Slots \ {s} : out[t] = <<>> /\ budget[t] = MaxFrames

\* ---- C8
\* C8: a malformed frame makes the session that reads it stop, and the
\* stopping session sends Disconnect for its own id; neither step, nor the
\* registry applying that Disconnect, changes the state, the handle or the
\* room of another session.
C8_OthersKept(s) ==
    \A t \in Slots \ {s} :
        /\ st'[t] = st[t] /\ id'[t] = id[t] /\ room'[t] = room[t]
        /\ mbox'[t] = mbox[t] /\ out'[t] = out[t]
        /\ Registered(t) => Registered(t)'
        /\ RoomsOf(id[t])' = RoomsOf(id[t])
C8_BadFrameStep ==
    \A s \in Slots :
        /\ (FrameTurn(s) /\ Head(inbox[s]).tag = "Bad" /\ inbox'[s] = Tail(inbox[s])) =>
            /\ st'[s] = "Stopping"
            /\ UNCHANGED <<sessions, rooms, srvq>>
            /\ C8_OthersKept(s)
        /\ (st[s] = "Stopping" /\ st'[s] = "Stopped") =>
            /\ srvq' = Append(srvq, Request("Disconnect", s, id[s], "", ""))
            /\ UNCHANGED <<sessions, rooms>>
            /\ C8_OthersKept(s)
        /\ (Takes("Disconnect") /\ Head(srvq).from = s) => C8_OthersKept(s)
C8_BadFrameIsLocal == [][C8_BadFrameStep]_vars

\* a session stopped by a malformed frame is gone from the registry while
\* the other one is Active, registered, in a room, with a broadcast pushed
\* to it
C8_Witness ==
    \E s, t \in Slots :
        /\ s # t
        /\ st[s] = "Stopped" /\ ~hbFailed[s] /\ id[s] # NoId
        /\ ~Registered(s) /\ ~InFlight(s, "Disconnect")
        /\ st[t] = "Active" /\ Registered(t) /\ RoomsOf(id[t]) # {}
        /\ mbox[t] # <<>>

\* ---- C9
\* C9: a ListRooms answer of the running registry lists exactly the rooms
\* created by the Joins the registry has applied: nothing when there was none, and the room of
\* every Joined echo whose Join has been applied; the session writes the
\* answer to the peer as it is.
C9_JoinsInFlight(s) ==
    Cardinality({k \in 1 .. Len(srvq) : srvq[k].from = s /\ srvq[k].type = "Join"})
\* the k-th response written to s is a Joined echo whose Join is applied
C9_AppliedEcho(s, k) ==
    /\ out[s][k].tag = "Joined"
    /\ Cardinality({j \in k + 1 .. Len(out[s]) : out[s][j].tag = "Joined"})
            >= C9_JoinsInFlight(s)
C9_JoinedIsListed ==
    up => \A s \in Slots : \A k \in 1 .. Len(out[s]) :
            C9_AppliedEcho(s, k) => Listed(roomOrder, out[s][k].arg)
C9_ListStep ==
    /\ Takes("ListRooms") =>
        LET names == reply'[Head(srvq).from].names IN
            /\ \A r \in JoinNames \cup {MainRoom} :
                Listed(names, r) <=>
                    \E s \in Slots : \E k \in 1 .. Len(out[s]) :
                        C9_AppliedEcho(s, k) /\ out[s][k].arg = r
            /\ (\A s \in Slots : ~HasTag(out[s], "Joined")) => names = <<>>
    /\ \A s \in Slots :
        (wait[s] = "list" /\ wait'[s] = "none" /\ reply[s].kind = "rooms")
            => /\ out'[s] = Append(out[s], Response("Rooms", "", reply[s].names))
               /\ st'[s] = "Active"
C9_Listing == []C9_JoinedIsListed /\ [][C9_ListStep]_vars

\* a peer has been sent an empty listing and, after the other session's
\* Join, a listing with that room
C9_Witness ==
    \E s, t \in Slots :
        /\ s # t
        /\ Len(out[s]) = 2
        /\ out[s][1] = Response("Rooms", "", <<>>)
        /\ out[s][2] = Response("Rooms", "", <<"A">>)
        /\ out[t] = <<Response("Joined", "A", <<>>)>>

C11_Unregistered ==
    \A s \in Slots : id[s] = NoId =>
        /\ st[s] # "Active"
        /\ out[s] = <<>> /\ room[s] = MainRoom
        /\ Sent(s, {"Join", "Message", "ListRooms"}) = {}
C11_FailStep ==
    \A s \in Slots :
        /\ (wait[s] = "connect" /\ reply[s].kind = "err" /\ wait'[s] = "none") =>
            st'[s] = "Stopping" /\ id'[s] = NoId
        /\ (id[s] = NoId /\ id'[s] = NoId) =>
            \/ IsPrefix(inbox[s], inbox'[s])
            \/ st[s] = "Stopping" /\ st'[s] = "Stopped"
C11_ConnectFailure == []C11_Unregistered /\ [][C11_FailStep]_vars

\* a session whose Connect failed has stopped although its peer had written
\* frames to it
C11_Witness ==
    \E s \in Slots :
        /\ st[s] = "Stopped" /\ id[s] = NoId
        /\ budget[s] = 0
        /\ Sent(s, {"Disconnect"}) # {}

\* ---- C12
\* C12: when the ListRooms future of a session resolves with an error the
\* session leaves Active in that step (it stops, and so sends Disconnect).
C12_ListFailStep ==
    \A s \in Slots :
        (wait[s] = "list" /\ reply[s].kind = "err" /\ wait'[s] = "none") =>
            st'[s] = "Stopping"
C12_ListFailureStops == [][C12_ListFailStep]_vars

\* ---- C13
\* C13: while the ListRooms query of a session is outstanding (the request
\* is in the registry's mailbox or its answer has not been taken), no step
\* takes a frame from the session's unread frames, sends a request of the
\* session or changes its room, and the only response written is the Rooms
\* of that answer, which ends the wait; at all times the frames are taken
\* from the front of the unread frames, that is in arrival order.
C13_Outstanding(s) ==
    st[s] = "Active" /\ (InFlight(s, "ListRooms") \/ reply[s] # NoReply)
C13_DeferStep ==
    \A s \in Slots :
        /\ C13_Outstanding(s) =>
            /\ IsPrefix(inbox[s], inbox'[s])
            /\ \/ RequestsOf(srvq', s) = RequestsOf(srvq, s)
               \/ /\ RequestsOf(srvq, s) # <<>>
                  /\ RequestsOf(srvq', s) = Tail(RequestsOf(srvq, s))
            /\ room'[s] = room[s] /\ st'[s] = "Active"
            /\ \/ out'[s] = out[s]
               \/ /\ reply[s].kind = "rooms" /\ wait'[s] = "none"
                  /\ out'[s] = Append(out[s], Response("Rooms", "", reply[s].names))
        /\ \/ IsPrefix(inbox[s], inbox'[s])
           \/ inbox[s] # <<>> /\ IsPrefix(Tail(inbox[s]), inbox'[s])
           \/ st[s] = "Stopping" /\ st'[s] = "Stopped"
C13_ListDefers == [][C13_DeferStep]_vars

\* the answer to the List of a session is there while a Join and a Ping
\* that arrived after the List lie unread
C13_Witness ==
    \E s \in Slots :
        /\ wait[s] = "list" /\ reply[s].kind = "rooms"
        /\ inbox[s] = <<Frame("Join", "A"), PingFrame>>
        /\ out[s] = <<>>

\* ---- C14
\* C14: a tick of the liveness check that finds the peer's last Ping older
\* than the timeout sends Disconnect, stops the session and writes no Ping
\* response; any other tick writes one Ping response and leaves the session
\* Active with nothing sent to the registry.
C14_TickStep ==
    \A s \in Slots :
        (TimerTurn(s) /\ ~tickDue'[s] /\ st'[s] # "Stopped") =>
            IF TimedOut(idle[s])
            THEN /\ st'[s] = "Stopping"
                 /\ srvq' = Append(srvq, Request("Disconnect", s, id[s], "", ""))
                 /\ pingOut'[s] = pingOut[s]
            ELSE /\ st'[s] = "Active"
                 /\ srvq' = srvq
                 /\ pingOut'[s] = pingOut[s] + 1
C14_TickDoesOne == [][C14_TickStep]_vars

\* ---- C15
\* C15: while a session waits for its ListRooms answer the pushes in its
\* mailbox stay there, new ones are added behind them, the session stays
\* Active and the wait ends only by taking the answer, whose Rooms is
\* written; once the session runs again each push in the mailbox is taken
\* before any frame or tick and exactly one RoomMessage is written for it.
C15_PushStep ==
    \A s \in Slots :
        /\ (st[s] = "Active" /\ wait[s] = "list") =>
            /\ IsPrefix(mbox[s], mbox'[s])
            /\ st'[s] = "Active"
            /\ \/ wait'[s] = "list" /\ out'[s] = out[s]
               \/ /\ wait'[s] = "none" /\ reply[s] # NoReply
                  /\ out'[s] = IF reply[s].kind = "rooms"
                               THEN Append(out[s], Response("Rooms", "", reply[s].names))
                               ELSE out[s]
        /\ (Running(s) /\ mbox[s] # <<>>) =>
            /\ st'[s] = "Active" /\ wait'[s] = "none"
            /\ IsPrefix(inbox[s], inbox'[s]) /\ tickDue'[s] = tickDue[s]
            /\ \/ IsPrefix(mbox[s], mbox'[s]) /\ out'[s] = out[s]
               \/ /\ mbox'[s] = Tail(mbox[s])
                  /\ out'[s] = Append(out[s], Response("Message", Head(mbox[s]), <<>>))
C15_PushDuringList == [][C15_PushStep]_vars

\* a push lies in the mailbox of a session whose ListRooms answer is there
\* and not yet taken
C15_Witness ==
    \E s \in Slots :
        /\ st[s] = "Active" /\ wait[s] = "list" /\ reply[s].kind = "rooms"
        /\ mbox[s] = <<"hi">>

\* ---- C16
\* C16: the step that handles Join(r) sets the session's room to r, appends
\* Join(id, r) to the registry's mailbox and writes exactly one Joined(r),
\* whatever the room of the session was; and when the registry takes a
\* Join(id, r) with id already a member of r, its handles, rooms and
\* listing stay as they are.
C16_JoinStep ==
    /\ \A s \in Slots :
        (FrameTurn(s) /\ Head(inbox[s]).tag = "Join" /\ inbox'[s] = Tail(inbox[s])) =>
            LET r == Head(inbox[s]).arg IN
                /\ room'[s] = r
                /\ srvq' = Append(srvq, Request("Join", s, id[s], r, ""))
                /\ out'[s] = Append(out[s], Response("Joined", r, <<>>))
                /\ st'[s] = "Active"
    /\ (Takes("Join") /\ Head(srvq).id \in Members(rooms, Head(srvq).name)) =>
            UNCHANGED <<sessions, rooms, roomOrder, nextId>>
C16_JoinEffects == [][C16_JoinStep]_vars

\* a session has joined A twice and the registry has applied both Joins
C16_Witness ==
    \E s \in Slots :
        /\ up /\ st[s] = "Active" /\ Registered(s)
        /\ out[s] = <<Response("Joined", "A", <<>>), Response("Joined", "A", <<>>)>>
        /\ ~InFlight(s, "Join")
        /\ room[s] = "A" /\ RoomsOf(id[s]) = {"A"}

\* ---- C17
\* C17: a session leaves Active only to Stopping and leaves Stopping only to
\* Stopped, in a step that appends Disconnect for its id to the registry's
\* mailbox; the registry taking a Disconnect leaves the id without handle
\* and in no room; and whenever a session that had an id is Stopped and the
\* running registry holds no Disconnect of it any more, its id has no
\* handle and is in no room.
C17_Gone ==
    \A s \in Slots :
        (up /\ st[s] = "Stopped" /\ id[s] # NoId /\ Sent(s, {"Disconnect"}) = {}) =>
            id[s] \notin DOMAIN sessions /\ RoomsOf(id[s]) = {}
C17_StopStep ==
    /\ \A s \in Slots :
        /\ (st[s] = "Active" /\ st'[s] # "Active") => st'[s] = "Stopping"
        /\ (st[s] = "Stopping" /\ st'[s] # "Stopping") =>
            /\ st'[s] = "Stopped"
            /\ srvq' = Append(srvq, Request("Disconnect", s, id[s], "", ""))
        /\ st[s] = "Stopped" => st'[s] = "Stopped"
    /\ Takes("Disconnect") =>
        /\ Head(srvq).id \notin DOMAIN sessions'
        /\ \A r \in DOMAIN rooms' : Head(srvq).id \notin rooms'[r]
C17_DisconnectOnStop == []C17_Gone /\ [][C17_StopStep]_vars

\* the session of a client harness that had joined a room was stopped by
\* the end of its stream, and the registry has applied its Disconnect
C17_Witness ==
    \E s \in Slots :
        /\ up /\ st[s] = "Stopped" /\ ~hbFailed[s]
        /\ client[s] = "Stopped" /\ budget[s] = MaxFrames - 1
        /\ out[s] = <<Response("Joined", "A", <<>>)>>
        /\ Sent(s, {"Disconnect"}) = {}
        /\ id[s] # NoId /\ id[s] \notin DOMAIN sessions
        /\ "A" \in DOMAIN rooms /\ rooms["A"] = {}

\* ---- C18
\* C18 as claimed: every Disconnect, Join and Message in the registry's
\* mailbox carries an id that the registry has issued, the one its sender
\* holds, and not the sentinel.
C18_OwnIdInRequests ==
    \A k \in 1 .. Len(srvq) :
        srvq[k].type \in {"Disconnect", "Join", "Message"} =>
            /\ srvq[k].id # NoId
            /\ srvq[k].id < nextId
            /\ srvq[k].id = id[srvq[k].from]

\* What holds of the ids instead: every Disconnect, Join and Message in the
\* registry's mailbox carries the id its sender holds; that id was issued
\* by the registry to that session alone, except for the Disconnect of a
\* session whose Connect failed, which carries the sentinel 0.  With a
\* registry that fails Connect only once it has stopped and that issues
\* ids from 1, the sentinel Disconnect removes nothing.
C18_OwnIdOrSentinel ==
    /\ \A k \in 1 .. Len(srvq) :
        srvq[k].type \in {"Disconnect", "Join", "Message"} =>
            /\ srvq[k].id = id[srvq[k].from]
            /\ srvq[k].id < nextId
            /\ srvq[k].id = NoId => (srvq[k].type = "Disconnect" /\ ~up)
    /\ \A s, t \in Slots : (s # t /\ id[s] # NoId) => id[s] # id[t]
    /\ NoId \notin DOMAIN sessions
C18_StoppedStep == ~up => UNCHANGED <<sessions, rooms, roomOrder, nextId, up>>
C18_RequestIds == []C18_OwnIdOrSentinel /\ [][C18_StoppedStep]_vars

\* the Disconnect of a session whose Connect failed, with the sentinel id,
\* is in the mailbox while the other session is registered and in a room
C18_Witness ==
    \E s, t \in Slots :
        /\ s # t
        /\ st[s] = "Stopped" /\ id[s] = NoId
        /\ Sent(s, {"Disconnect"}) # {}
        /\ st[t] = "Active" /\ Registered(t) /\ RoomsOf(id[t]) # {}

\* ---- C19
\* C19: in every state each id in a room's member set has a handle in the
\* registry.
C19_MembersHaveHandles ==
    \A r \in DOMAIN rooms : rooms[r] \subseteq DOMAIN sessions

\* two sessions had joined the same room; one has stopped and the registry
\* has applied its Disconnect, the other is still a member
C19_Witness ==
    \E s, t \in Slots :
        /\ s # t
        /\ up /\ st[s] = "Stopped" /\ Sent(s, {"Disconnect"}) = {}
        /\ out[s] = <<Response("Joined", "A", <<>>)>>
        /\ id[s] \notin DOMAIN sessions
        /\ st[t] = "Active" /\ Registered(t)
        /\ "A" \in DOMAIN rooms /\ rooms["A"] = {id[t]}

\* ---- C20
\* C20: the client harness does not stop while the session that serves it
\* is alive.
C20_ClientKeepsRunning ==
    \A s \in Slots :
        (harness[s] /\ st[s] \in {"Connecting", "Active"}) => client[s] = "Open"

====
